---- MODULE Spec2Model ----
(***************************************************************************)
(* Model of src/includes/h/Extra/ExtraUptimeRobot.js: the sendMention      *)
(* request/acknowledgment correlator (publishWithAck) on one MQTT client,  *)
(* the mention offset resolution of buildMentionData, the identifier       *)
(* extraction of extractIdsFromPayload, and the uptime pinger.             *)
(*                                                                         *)
(* JavaScript strings are sequences of one-character strings; indexes are  *)
(* 0-based as in the source, so character i of the source is s[i + 1].     *)
(***************************************************************************)
EXTENDS Integers, Sequences, FiniteSets, TLC

\* ------------------------------------------------------------------ bounds
MaxBodyLen == 3
MaxMentions == 2
MaxCalls == 2
NumReqIDs == 2
MaxHeard == 2
MaxSteps == 2
MaxPings == 2

\* ------------------------------------------------------- string primitives
Max(a, b) == IF a >= b THEN a ELSE b

Min(a, b) == IF a <= b THEN a ELSE b

\* String.prototype.toLowerCase on one character
LowerChar(ch) ==
  CASE ch = "A" -> "a"
    [] ch = "B" -> "b"
    [] OTHER -> ch

ToLowerCase(s) == [i \in 1..Len(s) |-> LowerChar(s[i])]

\* the characters the regular expression class \w accepts, among those used
WordChars == {"a", "b", "c", "e", "h", "i", "l", "o", "y", "A", "B"}

WhiteSpace == {" "}

\* String.prototype.substring(start): start is clamped into 0..length
Substring(s, start) ==
  LET from == Min(Max(start, 0), Len(s))
  IN  [i \in 1..(Len(s) - from) |-> s[from + i]]

\* t occurs in s at 0-based index i
OccursAt(s, t, i) ==
  /\ i >= 0
  /\ i + Len(t) <= Len(s)
  /\ \A k \in 1..Len(t) : s[i + k] = t[k]

\* String.prototype.startsWith
StartsWith(s, t) == OccursAt(s, t, 0)

\* String.prototype.indexOf(t, from): from is clamped into 0..length
IndexOf(s, t, from) ==
  LET lo == Min(Max(from, 0), Len(s))
      hits == {i \in lo..Len(s) : OccursAt(s, t, i)}
  IN  IF hits = {} THEN -1 ELSE CHOOSE i \in hits : \A j \in hits : i <= j

\* String.prototype.lastIndexOf(t)
LastIndexOf(s, t) ==
  LET hits == {i \in 0..Len(s) : OccursAt(s, t, i)}
  IN  IF hits = {} THEN -1 ELSE CHOOSE i \in hits : \A j \in hits : i >= j

\* String.prototype.trim
RECURSIVE TrimStart(_)
TrimStart(s) ==
  IF Len(s) > 0 /\ s[1] \in WhiteSpace THEN TrimStart(Tail(s)) ELSE s

RECURSIVE TrimEnd(_)
TrimEnd(s) ==
  IF Len(s) > 0 /\ s[Len(s)] \in WhiteSpace
    THEN TrimEnd(SubSeq(s, 1, Len(s) - 1))
    ELSE s

Trim(s) == TrimEnd(TrimStart(s))

\* raw.replace(/^@+/, "")
RECURSIVE StripAt(_)
StripAt(s) == IF Len(s) > 0 /\ s[1] = "@" THEN StripAt(Tail(s)) ELSE s

\* \b at 0-based position p of s
WordBoundary(s, p) ==
  LET before == p >= 1 /\ p <= Len(s) /\ s[p] \in WordChars
      after == p >= 0 /\ p < Len(s) /\ s[p + 1] \in WordChars
  IN  before # after

\* s.match(new RegExp("\\b" + escaped(name) + "\\b", "i")): index of the
\* first match, or -1 when match() returns null
RegexWordMatch(s, name) ==
  LET ls == ToLowerCase(s)
      ln == ToLowerCase(name)
      hits == {i \in 0..Len(s) :
                 /\ OccursAt(ls, ln, i)
                 /\ WordBoundary(s, i)
                 /\ WordBoundary(s, i + Len(name))}
  IN  IF hits = {} THEN -1 ELSE CHOOSE i \in hits : \A j \in hits : i <= j

\* --------------------------------------------------------- buildMentionData
\* the search of one loop iteration (strategies 1-4 and the fallbacks): the
\* index found, the adjustment for the leading "@", and which step produced it
\* mutant: the "@" of the tag is not skipped
AtAdjustZero(raw, name) == 0

\* line 341: adj = raw.length - name.length
AtAdjust(raw, name) == Len(raw) - Len(name)

\* mutant: the search does not start at the shared cursor
SearchStartNoCursor(m, cursor) == IF m.hasFromIndex THEN m.fromIndex ELSE 0

\* line 331: start = Number.isInteger(m.fromIndex) ? m.fromIndex : cursor
SearchStart(m, cursor) == IF m.hasFromIndex THEN m.fromIndex ELSE cursor

LocateMention(base, raw, name, start, cursor) ==
  LET s1 == IF StartsWith(raw, <<"@">>) THEN IndexOf(base, raw, start) ELSE -1
      s2 == IndexOf(base, name, start)
      s3 == IndexOf(ToLowerCase(base), ToLowerCase(name), start)
      m4 == RegexWordMatch(Substring(base, start), name)
      s4 == IF m4 # -1 THEN start + m4 ELSE -1
      last == LastIndexOf(base, name)
  IN  IF s1 # -1 THEN [idx |-> s1, adj |-> AtAdjust(raw, name), via |-> "exactAt"]
      ELSE IF s2 # -1 THEN [idx |-> s2, adj |-> 0, via |-> "exactName"]
      ELSE IF s3 # -1 THEN [idx |-> s3, adj |-> 0, via |-> "caseInsensitive"]
      ELSE IF s4 >= 0 THEN [idx |-> s4, adj |-> 0, via |-> "wordBoundary"]
      ELSE IF last # -1 THEN [idx |-> last, adj |-> 0, via |-> "lastIndexOf"]
      ELSE [idx |-> Max(cursor, Len(base)), adj |-> 0, via |-> "lastResort"]

\* String(m.id || 0)
MentionId(m) == IF m.id = "" THEN "0" ELSE m.id

EmptyAcc == [ids |-> <<>>, offsets |-> <<>>, lengths |-> <<>>, types |-> <<>>,
             vias |-> <<>>, cursor |-> 0]

\* the body of "for (const m of msg.mentions)", from mention k on
RECURSIVE MentionLoop(_, _, _, _)
MentionLoop(base, mentions, k, acc) ==
  IF k > Len(mentions) THEN acc
  ELSE
    LET m == mentions[k]
        raw == Trim(m.tag)
        name == Trim(StripAt(raw))
        start == SearchStart(m, acc.cursor)
        loc == LocateMention(base, raw, name, start, acc.cursor)
        off == Max(0, loc.idx + loc.adj)
    IN  IF Len(name) = 0
          THEN MentionLoop(base, mentions, k + 1, acc)
          ELSE MentionLoop(base, mentions, k + 1,
                 [ids |-> Append(acc.ids, MentionId(m)),
                  offsets |-> Append(acc.offsets, off),
                  lengths |-> Append(acc.lengths, Len(name)),
                  types |-> Append(acc.types, "p"),
                  vias |-> Append(acc.vias, loc.via),
                  cursor |-> off + Len(name)])

NullMentionData == [isNull |-> TRUE, mention_ids |-> <<>>, mention_offsets |-> <<>>,
                    mention_lengths |-> <<>>, mention_types |-> <<>>, vias |-> <<>>]

\* buildMentionData(msg, baseBody) for a mentions value of the given kind
\* ("missing", "notArray" or "array"); the four comma-joined strings are kept
\* as the lists they are joined from, vias is the search step of each entry
BuildMentionData(kind, mentions, base) ==
  IF kind # "array" \/ Len(mentions) = 0 THEN NullMentionData
  ELSE
    LET acc == MentionLoop(base, mentions, 1, EmptyAcc)
    IN  IF Len(acc.ids) = 0 THEN NullMentionData
        ELSE [isNull |-> FALSE, mention_ids |-> acc.ids,
              mention_offsets |-> acc.offsets, mention_lengths |-> acc.lengths,
              mention_types |-> acc.types, vias |-> acc.vias]

\* ------------------------------------------------ inputs of buildMentionData
Alphabet == {"@", " ", "a", "A", "b"}

RECURSIVE StringsUpTo(_)
StringsUpTo(n) ==
  IF n = 0 THEN {<<>>}
  ELSE LET shorter == StringsUpTo(n - 1)
       IN  shorter \cup {Append(s, ch) : s \in {t \in shorter : Len(t) = n - 1},
                                          ch \in Alphabet}

Bodies == StringsUpTo(MaxBodyLen)

Tags == {<<>>, <<"@">>, <<"a">>, <<"A">>, <<"b">>, <<"@", "a">>, <<"@", "b">>,
         <<" ", "@", "a">>, <<"a", "b">>}

FromIndexes == {-1, 1}

MentionItems ==
  [tag : Tags, id : {"1"}, hasFromIndex : {FALSE}, fromIndex : {0}]
    \cup [tag : {<<"a">>, <<"@", "b">>}, id : {""}, hasFromIndex : {TRUE},
          fromIndex : FromIndexes]

RECURSIVE ListsUpTo(_, _)
ListsUpTo(S, n) ==
  IF n = 0 THEN {<<>>}
  ELSE LET shorter == ListsUpTo(S, n - 1)
       IN  shorter \cup {Append(l, x) : l \in {t \in shorter : Len(t) = n - 1},
                                          x \in S}

MentionLists == ListsUpTo(MentionItems, MaxMentions)

\* "hello @Alice bye" and [{tag: "@Alice", id: "1"}]
HelloAliceBody == <<"h", "e", "l", "l", "o", " ", "@", "A", "l", "i", "c", "e",
                    " ", "b", "y", "e">>

HelloAliceMentions == <<[tag |-> <<"@", "A", "l", "i", "c", "e">>, id |-> "1",
                         hasFromIndex |-> FALSE, fromIndex |-> 0]>>

MentionInputs ==
  [body : Bodies, mentions : MentionLists]
    \cup {[body |-> HelloAliceBody, mentions |-> HelloAliceMentions]}

\* ------------------------------------------------------------- sendMention
\* reqID = Math.floor(100 + Math.random() * 900): the first NumReqIDs values
ReqIdMin == 100

ReqIDs == ReqIdMin..(ReqIdMin + NumReqIDs - 1)

CallIds == 1..MaxCalls

VARIABLES
  call,        \* per sendMention call: its position and the closure of publishWithAck
  listeners,   \* mqttClient "message" listeners: how many times handleRes of a call is registered
  outbox,      \* request_ids of the envelopes published on /ls_req, in order
  mentionIn,   \* buildMentionData under test: its arguments
  mentionOut,  \* buildMentionData under test: its result, once applied
  heard,       \* history: the messages handleRes of call 1 was run with, in order
  resIn,       \* handleRes under test: the text of the call and the parsed payload
  resOut,      \* handleRes under test: the bodies it settles with, once applied
  uptime       \* the uptime pinger: its configuration and environment, its timers, its requests

vars == <<call, listeners, outbox, mentionIn, mentionOut, heard, resIn, resOut, uptime>>

\* a call that has not been made yet
IdleCall ==
  [pc |-> "idle",          \* "idle", "L428", "L429", "L437" (next line to run), "async", "returned", "threw"
   exit |-> "none",        \* the branch of sendMention the call left through
   userCb |-> FALSE,       \* the caller passed a callback function
   ret |-> "none",         \* what sendMention handed back to the caller
   cbLog |-> <<>>,         \* invocations of callback, in order
   reqID |-> ReqIdMin,
   done |-> FALSE,
   promise |-> "pending",  \* the promise publishWithAck returns
   timer |-> "none",       \* the 15000 ms timer: "none", "armed", "fired"
   pubCb |-> "none",       \* the callback given to publish: "none", "pending", "called"
   sent |-> <<>>,          \* the objects api.sendMessage was called with, in order
   msgIntact |-> TRUE]     \* the caller's msg object has the fields it was passed with

\* mutant: the envelope is published before the listener is registered
StatementAtPublishFirst(line) ==
  CASE line = "L428" -> "publish"
    [] line = "L429" -> "on"
    [] line = "L437" -> "setTimeout"
    [] OTHER -> "none"

\* the statement of publishWithAck at a line of its promise executor
StatementAt(line) ==
  CASE line = "L428" -> "on"
    [] line = "L429" -> "publish"
    [] line = "L437" -> "setTimeout"
    [] OTHER -> "none"

LineAfter(line) ==
  CASE line = "L428" -> "L429"
    [] line = "L429" -> "L437"
    [] OTHER -> "async"

\* calls inside the synchronous part of publishWithAck (JavaScript runs it to
\* completion: nothing else runs meanwhile)
Running == {c \in CallIds : call[c].pc \in {"L428", "L429", "L437"}}

\* messages sendMention is called with
SendInputs ==
  [type : {"Other"}, attachment : {FALSE}, kind : {"missing"}, mentions : {<<>>},
   body : {<<>>}]
  \cup [type : {"String"}, attachment : {FALSE}, kind : {"missing"}, mentions : {<<>>},
        body : {<<"a">>}]
  \cup [type : {"Object"}, attachment : BOOLEAN, kind : {"missing", "notArray", "array"},
        mentions : {<<>>}, body : {<<"a">>}]
  \cup [type : {"Object"}, attachment : {FALSE}, kind : {"array"},
        mentions : {<<[tag |-> <<"@">>, id |-> "1", hasFromIndex |-> FALSE, fromIndex |-> 0]>>,
                    <<[tag |-> <<"@", "a">>, id |-> "1", hasFromIndex |-> FALSE, fromIndex |-> 0]>>},
        body : {<<"@", "a">>}]
  \cup [type : {"Object"}, attachment : {TRUE}, kind : {"array"},
        mentions : {<<[tag |-> <<"a">>, id |-> "1", hasFromIndex |-> FALSE, fromIndex |-> 0]>>},
        body : {<<"a">>}]

\* lines 164-239: the branch a call leaves sendMention through, "publishWithAck"
\* when it reaches line 303
ExitOf(conn, tidIsFn, msg, hasSendMessage) ==
  IF conn # "connected" THEN "notConnected"
  ELSE IF tidIsFn THEN "threadIDIsFunction"
  ELSE IF msg.type \notin {"String", "Object"} THEN "badType"
  ELSE IF msg.attachment THEN (IF hasSendMessage THEN "sendMessage" ELSE "noSendMessage")
  ELSE IF msg.kind # "array" \/ Len(msg.mentions) = 0 THEN "validation"
  ELSE IF BuildMentionData(msg.kind, msg.mentions, msg.body).isNull THEN "buildFailed"
  ELSE "publishWithAck"

\* the error objects sendMention itself passes to callback
ErrorOf(exit) ==
  CASE exit = "notConnected" -> "notConnectedError"
    [] exit = "badType" -> "typeError"
    [] exit = "noSendMessage" -> "noSendMessageError"
    [] exit = "validation" -> "validationError"
    [] exit = "buildFailed" -> "buildError"
    [] OTHER -> "none"

\* the arguments and surroundings of one sendMention call: the state of
\* ctx.mqttClient, the callback argument (a string there is the replyToMessage
\* of lines 174-177), whether threadID is a function, the message, and whether
\* api.sendMessage exists
SendArgs ==
  [conn : {"absent", "disconnected", "connected"},
   cbArg : {"function", "string", "none"},
   tidIsFn : BOOLEAN,
   msg : SendInputs,
   hasSendMessage : BOOLEAN]

\* the object a message of SendInputs is: its own enumerable fields
MsgObject(msg) ==
  LET keys == {"body"} \cup (IF msg.attachment THEN {"attachment"} ELSE {})
                       \cup (IF msg.kind # "missing" THEN {"mentions"} ELSE {})
  IN  [k \in keys |->
        CASE k = "body" -> msg.body
          [] k = "attachment" -> <<"file">>
          [] OTHER -> IF msg.kind = "array" THEN msg.mentions ELSE <<"notArray">>]

\* delete o[key]
Without(o, key) == [k \in DOMAIN o \ {key} |-> o[k]]

\* lines 213-214: attachmentMsg = { ...m } is a new object ("copy") holding the
\* fields of m ("msg"), and delete removes mentions from it; the object that
\* is passed on and the caller's object afterwards
AttachmentMsg(m) ==
  LET spread == [msg |-> m, copy |-> m]
      after == [spread EXCEPT !["copy"] = Without(@, "mentions")]
  IN  [ref |-> "copy", fields |-> after["copy"], caller |-> after["msg"]]

\* what the rest of the call depends on: the branch taken, the callback
\* argument (a function makes callback the caller's, anything else leaves the
\* default of lines 186-191 once line 186 is reached) and, in the attachment
\* branch, the object handed to api.sendMessage and the caller's object
SendCases ==
  {LET exit == ExitOf(a.conn, a.tidIsFn, a.msg, a.hasSendMessage)
       att == AttachmentMsg(MsgObject(a.msg))
   IN  [exit |-> exit,
        cbArg |-> a.cbArg,
        sent |-> IF exit = "sendMessage"
                   THEN <<[ref |-> att.ref, fields |-> att.fields]>> ELSE <<>>,
        msgIntact |-> IF exit \in {"sendMessage", "noSendMessage"}
                        THEN att.caller = MsgObject(a.msg) ELSE TRUE] : a \in SendArgs}

\* sendMention(msg, threadID, callback, replyToMessage), up to the first
\* statement of the executor of publishWithAck (line 403)
SendMention(c, a) ==
  /\ Running = {}
  /\ call[c].pc = "idle"
  /\ \A d \in CallIds : d < c => call[d].pc # "idle"
  /\ \E rid \in (IF a.exit = "publishWithAck" THEN ReqIDs ELSE {ReqIdMin}) :
       LET exit == a.exit
           userCb == a.cbArg = "function"
       IN
         call' = [call EXCEPT ![c] =
           CASE exit = "notConnected" ->
                  \* if (callback) callback(err); throw err
                  \* a string callback (the replyToMessage of line 174) is
                  \* truthy and calling it raises a TypeError in place of err
                  [@ EXCEPT !.pc = "threw", !.exit = exit, !.userCb = userCb,
                            !.ret = IF a.cbArg = "string" THEN "throwTypeError" ELSE "throw",
                            !.cbLog = IF userCb THEN <<ErrorOf(exit)>> ELSE <<>>]
             [] exit = "threadIDIsFunction" ->
                  [@ EXCEPT !.pc = "returned", !.exit = exit, !.userCb = userCb,
                            !.ret = "threadIDResult"]
             [] exit = "sendMessage" ->
                  \* return api.sendMessage(attachmentMsg, threadID, callback, replyToMessage)
                  [@ EXCEPT !.pc = "returned", !.exit = exit, !.userCb = userCb,
                            !.ret = "sendMessageResult",
                            !.sent = a.sent, !.msgIntact = a.msgIntact]
             [] exit = "noSendMessage" ->
                  \* return callback({ error: ... }), after lines 213-214
                  [@ EXCEPT !.pc = "returned", !.exit = exit, !.userCb = userCb,
                            !.ret = "callbackResult", !.cbLog = <<ErrorOf(exit)>>,
                            !.msgIntact = a.msgIntact]
             [] exit \in {"badType", "validation", "buildFailed"} ->
                  \* return callback({ error: ... })
                  [@ EXCEPT !.pc = "returned", !.exit = exit, !.userCb = userCb,
                            !.ret = "callbackResult", !.cbLog = <<ErrorOf(exit)>>]
             [] OTHER ->
                  [@ EXCEPT !.pc = "L428", !.exit = exit, !.userCb = userCb,
                            !.reqID = rid]]
  /\ UNCHANGED <<listeners, outbox, mentionIn, mentionOut, heard, resIn, resOut, uptime>>

\* ---------------------------------------------------------- publishWithAck
\* mutant: cleanup() sets done and removes no listener
ListenersAfterCleanupKept(c) == listeners

\* cleanup(): the listener list after it ran for call c
ListenersAfterCleanup(c) ==
  IF call[c].done THEN listeners
  ELSE [listeners EXCEPT ![c] = Max(@ - 1, 0)]

\* resolve / reject of the returned promise: only the first one settles it
Settle(p, outcome) == IF p = "pending" THEN outcome ELSE p

\* line 428: mqttClient.on("message", handleRes)
RegisterListener(c) ==
  /\ StatementAt(call[c].pc) = "on"
  /\ listeners' = [listeners EXCEPT ![c] = @ + 1]
  /\ call' = [call EXCEPT ![c].pc = LineAfter(@)]
  /\ UNCHANGED <<outbox, mentionIn, mentionOut, heard, resIn, resOut, uptime>>

\* line 429: mqttClient.publish("/ls_req", ..., err => ...)
Publish(c) ==
  /\ StatementAt(call[c].pc) = "publish"
  /\ outbox' = Append(outbox, call[c].reqID)
  /\ call' = [call EXCEPT ![c].pc = LineAfter(@), ![c].pubCb = "pending"]
  /\ UNCHANGED <<listeners, mentionIn, mentionOut, heard, resIn, resOut, uptime>>

\* line 437: setTimeout(..., 15000); the executor ends and sendMention
\* returns the promise
ArmTimer(c) ==
  /\ StatementAt(call[c].pc) = "setTimeout"
  /\ call' = [call EXCEPT ![c].pc = LineAfter(@), ![c].timer = "armed",
                          ![c].ret = "promise"]
  /\ UNCHANGED <<listeners, outbox, mentionIn, mentionOut, heard, resIn, resOut, uptime>>

\* lines 429-435: the transport calls the publish callback, with or without
\* an error; it may do so from inside publish() or at any later time
PublishCallback(c, err) ==
  /\ call[c].pubCb = "pending"
  /\ Running \subseteq {c}
  /\ IF err
       THEN /\ listeners' = ListenersAfterCleanup(c)
            /\ call' = [call EXCEPT ![c].pubCb = "called", ![c].done = TRUE,
                          ![c].cbLog = Append(@, "publishError"),
                          ![c].promise = Settle(@, "rejectedPublish")]
       ELSE /\ call' = [call EXCEPT ![c].pubCb = "called"]
            /\ UNCHANGED listeners
  /\ UNCHANGED <<outbox, mentionIn, mentionOut, heard, resIn, resOut, uptime>>

\* mutant: the timer callback reports the timeout without calling cleanup()
TimerFireNoCleanup(c) ==
  /\ call[c].timer = "armed"
  /\ \A d \in CallIds : d < c => call[d].timer # "armed"
  /\ Running = {}
  /\ IF call[c].done
       THEN call' = [call EXCEPT ![c].timer = "fired"]
       ELSE call' = [call EXCEPT ![c].timer = "fired",
                       ![c].cbLog = Append(@, "timeout"),
                       ![c].promise = Settle(@, "rejectedTimeout")]
  /\ UNCHANGED <<listeners, outbox, mentionIn, mentionOut, heard, resIn, resOut, uptime>>

\* mutant: the guard of the timer callback is inverted ("if (!done) return")
TimerFireInverted(c) ==
  /\ call[c].timer = "armed"
  /\ \A d \in CallIds : d < c => call[d].timer # "armed"
  /\ Running = {}
  /\ IF ~call[c].done
       THEN call' = [call EXCEPT ![c].timer = "fired"]
       ELSE call' = [call EXCEPT ![c].timer = "fired",
                       ![c].cbLog = Append(@, "timeout"),
                       ![c].promise = Settle(@, "rejectedTimeout")]
  /\ UNCHANGED <<listeners, outbox, mentionIn, mentionOut, heard, resIn, resOut, uptime>>

\* lines 437-443: the 15000 ms timer fires; timers of one delay fire in the
\* order they were set
TimerFire(c) ==
  /\ call[c].timer = "armed"
  /\ \A d \in CallIds : d < c => call[d].timer # "armed"
  /\ Running = {}
  /\ IF call[c].done
       THEN /\ call' = [call EXCEPT ![c].timer = "fired"]
            /\ UNCHANGED listeners
       ELSE /\ listeners' = ListenersAfterCleanup(c)
            /\ call' = [call EXCEPT ![c].timer = "fired", ![c].done = TRUE,
                          ![c].cbLog = Append(@, "timeout"),
                          ![c].promise = Settle(@, "rejectedTimeout")]
  /\ UNCHANGED <<outbox, mentionIn, mentionOut, heard, resIn, resOut, uptime>>

\* inbound messages: the topic, whether JSON.parse of the message and of its
\* payload field succeed, and the request_id of the parsed message
OtherReqId == ReqIdMin + NumReqIDs

Messages ==
  [topic : {"/ls_resp"}, parse : {"ok"}, idType : {"number"},
   request_id : ReqIDs \cup {OtherReqId}]
  \cup [topic : {"/ls_resp"}, parse : {"ok"}, idType : {"string"}, request_id : {ReqIdMin}]
  \cup [topic : {"/t_ms"}, parse : {"ok"}, idType : {"number"}, request_id : {ReqIdMin}]
  \cup [topic : {"/ls_resp"}, parse : {"badOuter", "badPayload"}, idType : {"number"},
        request_id : {ReqIdMin}]

\* mutant: the payload field is not parsed, so a bad payload does not discard
ParsesOkSkipPayload(m) == m.topic = "/ls_resp" /\ m.parse \in {"ok", "badPayload"}

\* lines 411-418: the message is on /ls_resp and both JSON.parse calls succeed
ParsesOk(m) == m.topic = "/ls_resp" /\ m.parse = "ok"

\* mutant: loose comparison, the string "100" equals the number 100
IdMatchesLoose(m, reqID) == m.request_id = reqID

\* mutant: the request_id of the response is not compared at all
IdMatchesAny(m, reqID) == TRUE

\* line 419: jsonMsg.request_id !== reqID is false (strict: a number equal to reqID)
IdMatches(m, reqID) == m.idType = "number" /\ m.request_id = reqID

\* lines 411-419: handleRes of a call with this reqID goes on to settle
Accepts(m, reqID) == ParsesOk(m) /\ IdMatches(m, reqID)

\* lines 410-426: handleRes(topic, message) of call c, as the new closure state
HandleRes(c, m) ==
  IF Accepts(m, call[c].reqID)
    THEN [call[c] EXCEPT !.done = TRUE,
                         !.cbLog = Append(@, "ack"),
                         !.promise = Settle(@, "resolved")]
    ELSE call[c]

\* mqttClient.emit("message", topic, message): every listener registered at
\* that moment runs
EmitMessage(m) ==
  /\ call' = [c \in CallIds |->
               IF listeners[c] > 0 THEN HandleRes(c, m) ELSE call[c]]
  /\ listeners' = [c \in CallIds |->
                    IF listeners[c] > 0 /\ Accepts(m, call[c].reqID)
                      THEN ListenersAfterCleanup(c)[c]
                      ELSE listeners[c]]

\* the transport receives a message and emits it
Emit(m) ==
  /\ Running = {}
  /\ EmitMessage(m)
  /\ UNCHANGED <<outbox, mentionIn, mentionOut, heard, resIn, resOut, uptime>>

\* the same, recording what the listener of call 1 hears
Deliver(m) ==
  /\ Running = {}
  /\ Len(heard) < MaxHeard
  /\ EmitMessage(m)
  /\ heard' = IF listeners[1] > 0 THEN Append(heard, m) ELSE heard
  /\ UNCHANGED <<outbox, mentionIn, mentionOut, resIn, resOut, uptime>>

\* ---------------------------------------------------- extractIdsFromPayload
\* parsed JSON values: numbers and strings by their text, null, arrays;
\* undefined is what indexing past the end of an array yields
JNum(x) == [t |-> "num", s |-> x]

JStr(x) == [t |-> "str", s |-> x]

JNull == [t |-> "null", s |-> ""]

JUndefined == [t |-> "undefined", s |-> ""]

JArr(xs) == [t |-> "arr", items |-> xs]

\* n[i] of an array n (0-based)
At(n, i) == IF i < Len(n.items) THEN n.items[i + 1] ELSE JUndefined

\* String(v); an array is joined with ",", null and undefined elements as ""
RECURSIVE StringOf(_)
RECURSIVE JoinFrom(_, _)
JoinFrom(xs, k) ==
  IF k > Len(xs) THEN ""
  ELSE (IF k > 1 THEN "," ELSE "")
         \o (IF xs[k].t \in {"null", "undefined"} THEN "" ELSE StringOf(xs[k]))
         \o JoinFrom(xs, k + 1)

StringOf(v) ==
  CASE v.t = "null" -> "null"
    [] v.t = "undefined" -> "undefined"
    [] v.t = "arr" -> JoinFrom(v.items, 1)
    [] OTHER -> v.s

\* v === 5, v === "replaceOptimisticMessage", ... (strict: type and value)
IsNum(v, x) == v.t = "num" /\ v.s = x

IsStr(v, x) == v.t = "str" /\ v.s = x

\* line 454: the two spellings of the marker
ReplaceMarkers == {"replaceOptimsiticMessage", "replaceOptimisticMessage"}

NoIds == [messageID |-> JNull, threadID |-> JNull]

RECURSIVE Walk(_, _)
RECURSIVE WalkItems(_, _, _)
\* line 461: for (const x of n) walk(x)
WalkItems(xs, k, acc) ==
  IF k > Len(xs) THEN acc ELSE WalkItems(xs, k + 1, Walk(xs[k], acc))

\* mutant: an id already found is kept (the first match wins)
WalkFirstWins(n, acc) ==
  IF n.t # "arr" THEN acc
  ELSE
    LET a == At(n, 2)
        acc1 == IF IsNum(At(n, 0), "5") /\ At(n, 1).t = "str"
                     /\ At(n, 1).s \in ReplaceMarkers /\ acc.messageID = JNull
                  THEN [acc EXCEPT !.messageID = JStr(StringOf(At(n, 3)))]
                  ELSE acc
        acc2 == IF /\ IsNum(At(n, 0), "5")
                   /\ IsStr(At(n, 1), "writeCTAIdToThreadsTable")
                   /\ a.t = "arr" /\ IsNum(At(a, 0), "19") /\ acc.threadID = JNull
                  THEN [acc1 EXCEPT !.threadID = JStr(StringOf(At(a, 1)))]
                  ELSE acc1
    IN  WalkItems(n.items, 1, acc2)

\* lines 452-463: walk(n), threading messageID and threadID through acc
Walk(n, acc) ==
  IF n.t # "arr" THEN acc
  ELSE
    LET a == At(n, 2)
        acc1 == IF IsNum(At(n, 0), "5") /\ At(n, 1).t = "str"
                     /\ At(n, 1).s \in ReplaceMarkers
                  THEN [acc EXCEPT !.messageID = JStr(StringOf(At(n, 3)))]
                  ELSE acc
        acc2 == IF /\ IsNum(At(n, 0), "5")
                   /\ IsStr(At(n, 1), "writeCTAIdToThreadsTable")
                   /\ a.t = "arr" /\ IsNum(At(a, 0), "19")
                  THEN [acc1 EXCEPT !.threadID = JStr(StringOf(At(a, 1)))]
                  ELSE acc1
    IN  WalkItems(n.items, 1, acc2)

\* payload?.step: a payload is null or an object, with or without a step field
StepOf(payload) ==
  IF payload.t = "obj" /\ payload.hasStep THEN payload.step ELSE JUndefined

\* lines 448-466
ExtractIdsFromPayload(payload) == Walk(StepOf(payload), NoIds)

\* lines 421-422: the bodies handleRes settles with; text || null
ResponseBodies(text, payload) ==
  LET ids == ExtractIdsFromPayload(payload)
  IN  [body |-> IF Len(text) = 0 THEN JNull ELSE [t |-> "str", s |-> text],
       messageID |-> ids.messageID, threadID |-> ids.threadID]

\* --------------------------------------- inputs of extractIdsFromPayload
Replace(marker, x, id) == JArr(<<JNum("5"), JStr(marker), x, id>>)

WriteCTA(a) == JArr(<<JNum("5"), JStr("writeCTAIdToThreadsTable"), a>>)

FlatItems ==
  {Replace("replaceOptimisticMessage", JNum("0"), JStr("m1")),
   Replace("replaceOptimsiticMessage", JNum("0"), JStr("m2")),
   Replace("replaceOptimisticMessage", JNull, JNum("7")),
   JArr(<<JNum("5"), JStr("replaceOptimisticMessage")>>),
   WriteCTA(JArr(<<JNum("19"), JStr("t1")>>)),
   WriteCTA(JArr(<<JNum("19"), JNum("2")>>)),
   WriteCTA(JArr(<<JNum("18"), JStr("t9")>>)),
   WriteCTA(JStr("t9")),
   Replace("other", JNum("0"), JStr("m9")),
   JArr(<<JStr("5"), JStr("replaceOptimisticMessage"), JNum("0"), JStr("m9")>>),
   JStr("x")}

\* the same one level down: inside an unrelated array, and inside an array
\* that itself carries a message id
StepItems ==
  FlatItems
    \cup {JArr(<<JNum("1"), x>>) : x \in FlatItems}
    \cup {Replace("replaceOptimisticMessage", x, JStr("m3")) :
            x \in {Replace("replaceOptimisticMessage", JNum("0"), JStr("m1")),
                   WriteCTA(JArr(<<JNum("19"), JStr("t1")>>))}}

Payloads ==
  {[t |-> "obj", hasStep |-> TRUE, step |-> JArr(xs)] : xs \in ListsUpTo(StepItems, MaxSteps)}
    \cup {[t |-> "obj", hasStep |-> TRUE, step |-> JStr("x")],
          [t |-> "obj", hasStep |-> FALSE, step |-> JUndefined],
          [t |-> "null", hasStep |-> FALSE, step |-> JUndefined]}

ResponseInputs == [text : {<<>>, <<"a">>}, payload : Payloads]

NoResponse == [text |-> <<>>, payload |-> [t |-> "null", hasStep |-> FALSE, step |-> JUndefined]]

NoBodies == [body |-> JUndefined, messageID |-> JUndefined, threadID |-> JUndefined]

\* ------------------------------------------------------------ uptime pinger
\* the environment variables detectPlatformAndURL reads; each is set to a
\* non-empty string or not (unset and "" are both falsy)
EnvVars == {"REPL_SLUG", "REPL_OWNER", "RENDER_SERVICE_NAME", "RENDER",
            "RENDER_EXTERNAL_HOSTNAME", "RAILWAY_STATIC_URL", "RAILWAY_PUBLIC_DOMAIN",
            "GITHUB_ACTIONS", "PORT", "HOST", "HOSTNAME"}

Platforms == {"win32", "darwin", "linux", "freebsd"}

NoInfo == [isNull |-> TRUE, platform |-> "none", url |-> "null"]

\* lines 6-61: the platform and the URL ("null" for url: null), or null
DetectPlatformAndURL(env, uptimeURL) ==
  IF env["REPL_SLUG"] /\ env["REPL_OWNER"]
    THEN [isNull |-> FALSE, platform |-> "Replit", url |-> "replUrl"]
  ELSE IF (env["RENDER_SERVICE_NAME"] \/ env["RENDER"])
            /\ (env["RENDER_SERVICE_NAME"] \/ env["RENDER_EXTERNAL_HOSTNAME"])
    THEN [isNull |-> FALSE, platform |-> "Render", url |-> "renderUrl"]
  ELSE IF env["RAILWAY_STATIC_URL"] \/ env["RAILWAY_PUBLIC_DOMAIN"]
    THEN [isNull |-> FALSE, platform |-> "Railway", url |-> "railwayUrl"]
  ELSE IF env["GITHUB_ACTIONS"]
    THEN [isNull |-> FALSE, platform |-> "GitHub Actions", url |-> "null"]
  ELSE IF env["PORT"] /\ (env["HOST"] \/ env["HOSTNAME"])
    THEN [isNull |-> FALSE, platform |-> "Generic Hosting", url |-> "hostUrl"]
  ELSE IF uptimeURL
    THEN [isNull |-> FALSE, platform |-> "Custom URL", url |-> "UptimeURL"]
  ELSE NoInfo

\* lines 68-118: the URL startUptimeMonitoring is called with, "null" when
\* it is not called
MonitoredURL(u) ==
  IF ~u.Uptime THEN "null"
  ELSE IF u.platform \in {"win32", "darwin"}
    THEN (IF u.UptimeURL THEN "UptimeURL" ELSE "null")
  ELSE IF u.platform = "linux"
    THEN DetectPlatformAndURL(u.env, u.UptimeURL).url
  ELSE "null"

\* the pinger before module.exports() is called; Value.Uptime, whether
\* Value.UptimeURL is set, process.platform and process.env
UptimeConfigs ==
  [pc : {"loaded"}, Uptime : BOOLEAN, UptimeURL : BOOLEAN, platform : Platforms,
   env : [EnvVars -> BOOLEAN],
   url : {"null"}, initial : {"none"}, interval : {"none"}, requests : {<<>>}]

NoUptime ==
  [pc |-> "loaded", Uptime |-> FALSE, UptimeURL |-> FALSE, platform |-> "linux",
   env |-> [v \in EnvVars |-> FALSE],
   url |-> "null", initial |-> "none", interval |-> "none", requests |-> <<>>]

\* lines 63-119 and 121-142: module.exports(), which may call
\* startUptimeMonitoring(url, platform): setTimeout(..., 5000) and setInterval
StartUptime ==
  /\ uptime.pc = "loaded"
  /\ LET url == MonitoredURL(uptime)
     IN  uptime' = IF url = "null"
                     THEN [uptime EXCEPT !.pc = "called"]
                     ELSE [uptime EXCEPT !.pc = "called", !.url = url,
                                         !.initial = "armed", !.interval = "running"]
  /\ UNCHANGED <<call, listeners, outbox, mentionIn, mentionOut, heard, resIn, resOut>>

\* lines 126-130: the 5000 ms timer fires: Fetch.get(url)
InitialPing ==
  /\ uptime.initial = "armed"
  /\ uptime' = [uptime EXCEPT !.initial = "fired", !.requests = Append(@, uptime.url)]
  /\ UNCHANGED <<call, listeners, outbox, mentionIn, mentionOut, heard, resIn, resOut>>

\* lines 133-141: the 5 minute interval fires (after the 5000 ms timer):
\* Fetch.get(url)
IntervalPing ==
  /\ uptime.interval = "running"
  /\ uptime.initial = "fired"
  /\ Len(uptime.requests) <= MaxPings
  /\ uptime' = [uptime EXCEPT !.requests = Append(@, uptime.url)]
  /\ UNCHANGED <<call, listeners, outbox, mentionIn, mentionOut, heard, resIn, resOut>>

\* --------------------------------------------------------- specifications
NoMention == [body |-> <<>>, mentions |-> <<>>]

Init ==
  /\ call = [c \in CallIds |-> IdleCall]
  /\ listeners = [c \in CallIds |-> 0]
  /\ outbox = <<>>
  /\ mentionIn = NoMention
  /\ mentionOut = NullMentionData
  /\ heard = <<>>
  /\ resIn = NoResponse
  /\ resOut = NoBodies
  /\ uptime = NoUptime

Next ==
  \/ \E c \in CallIds, a \in SendCases : SendMention(c, a)
  \/ \E c \in CallIds : RegisterListener(c)
  \/ \E c \in CallIds : Publish(c)
  \/ \E c \in CallIds : ArmTimer(c)
  \/ \E c \in CallIds, err \in BOOLEAN : PublishCallback(c, err)
  \/ \E c \in CallIds : TimerFire(c)
  \/ \E m \in Messages : Emit(m)

Spec == Init /\ [][Next]_vars

\* the next statement of the executor that is running (at most one is)
ExecutorStep == \E c \in CallIds : RegisterListener(c) \/ Publish(c) \/ ArmTimer(c)

\* the armed timer that is due first fires
TimerStep == \E c \in CallIds : TimerFire(c)

\* the event loop runs a started executor to its end and fires armed timers
LiveSpec == Init /\ [][Next]_vars /\ WF_vars(ExecutorStep) /\ WF_vars(TimerStep)

\* one sendMention call and the inbound messages its listener hears
SendOne == \E a \in SendCases : SendMention(1, a)

ResponseNext ==
  \/ SendOne
  \/ ExecutorStep
  \/ \E c \in CallIds, err \in BOOLEAN : PublishCallback(c, err)
  \/ TimerStep
  \/ \E m \in Messages : Deliver(m)

ResponseSpec == Init /\ [][ResponseNext]_vars

\* lines 421-422 of handleRes applied to one matching response
ExtractInit ==
  /\ call = [c \in CallIds |-> IdleCall]
  /\ listeners = [c \in CallIds |-> 0]
  /\ outbox = <<>>
  /\ mentionIn = NoMention
  /\ mentionOut = NullMentionData
  /\ heard = <<>>
  /\ resIn \in ResponseInputs
  /\ resOut = NoBodies
  /\ uptime = NoUptime

ApplyResponseBodies ==
  /\ resOut = NoBodies
  /\ resOut' = ResponseBodies(resIn.text, resIn.payload)
  /\ UNCHANGED <<call, listeners, outbox, mentionIn, mentionOut, heard, resIn, uptime>>

ExtractNext == ApplyResponseBodies

ExtractSpec == ExtractInit /\ [][ExtractNext]_vars

\* the uptime pinger under every configuration and environment
UptimeInit ==
  /\ call = [c \in CallIds |-> IdleCall]
  /\ listeners = [c \in CallIds |-> 0]
  /\ outbox = <<>>
  /\ mentionIn = NoMention
  /\ mentionOut = NullMentionData
  /\ heard = <<>>
  /\ resIn = NoResponse
  /\ resOut = NoBodies
  /\ uptime \in UptimeConfigs

UptimeNext == StartUptime \/ InitialPing \/ IntervalPing

UptimeSpec == UptimeInit /\ [][UptimeNext]_vars

\* buildMentionData applied to one input
MentionInit ==
  /\ call = [c \in CallIds |-> IdleCall]
  /\ listeners = [c \in CallIds |-> 0]
  /\ outbox = <<>>
  /\ mentionIn \in MentionInputs
  /\ mentionOut = NullMentionData
  /\ heard = <<>>
  /\ resIn = NoResponse
  /\ resOut = NoBodies
  /\ uptime = NoUptime

ApplyBuildMentionData ==
  /\ mentionOut = NullMentionData
  /\ mentionOut' = BuildMentionData("array", mentionIn.mentions, mentionIn.body)
  /\ mentionOut' # mentionOut
  /\ UNCHANGED <<call, listeners, outbox, mentionIn, heard, resIn, resOut, uptime>>

MentionNext == ApplyBuildMentionData

MentionSpec == MentionInit /\ [][MentionNext]_vars

\* ------------------------------------------------------------ properties
InLog(c, entry) == \E i \in 1..Len(call[c].cbLog) : call[c].cbLog[i] = entry

\* the envelope of call c has been handed to publish
Published(c) == call[c].pubCb # "none"

\* line 428 of call c has run
Attached(c) == call[c].pc \in {"L429", "L437", "async"}

\* call c is in flight: published and its promise not settled
Pending(c) == Published(c) /\ call[c].promise = "pending"

\* the caller of call c was told of outcome e: through the callback it passed,
\* or through the promise sendMention returned to it
RejectionOf(e) ==
  CASE e = "publishError" -> "rejectedPublish"
    [] e = "timeout" -> "rejectedTimeout"
    [] OTHER -> "none"

CallerTold(c, e) ==
  \/ call[c].userCb /\ InLog(c, e)
  \/ call[c].ret = "promise" /\ call[c].promise = RejectionOf(e)
  \/ call[c].ret = "throw" /\ call[c].exit = "notConnected" /\ e = "notConnectedError"

\* C1: for one publishWithAck call, the caller is never notified of both a
\* transport publish error and a "Timeout waiting for ACK" error.
C1_PublishErrorAndTimeoutExclusive ==
  \A c \in CallIds : ~(CallerTold(c, "publishError") /\ CallerTold(c, "timeout"))

\* C2: once the timeout of a call has reported failure, no later response on
\* /ls_resp settles the call or invokes its callback with a result: the promise
\* stays rejected with the timeout error and the callback log holds no ack.
C2_LateResponseNeverSettles ==
  \A c \in CallIds :
    InLog(c, "timeout") =>
      /\ call[c].promise = "rejectedTimeout"
      /\ ~InLog(c, "ack")
      /\ listeners[c] = 0

\* call d started after call c and was acknowledged by a response carrying
\* the reqID of c, which c, timed out by then, did not see
C2_Witness ==
  \E c, d \in CallIds :
    /\ c < d /\ call[c].reqID = call[d].reqID
    /\ call[c].cbLog = <<"timeout">> /\ InLog(d, "ack")

\* C3: a response whose request_id differs from the reqID of a pending call
\* leaves that call pending, its callback not invoked and its listener
\* registered.
\* (stated as: a step that changes any of these for a pending call is not
\* the emission of a response with another request_id)
C3_MismatchNeverSettles ==
  [][\A c \in CallIds :
       (Pending(c) /\ listeners[c] = 1) =>
         \/ /\ ~call'[c].done
            /\ call'[c].promise = call[c].promise
            /\ call'[c].cbLog = call[c].cbLog
            /\ listeners'[c] = 1
         \/ \A m \in Messages :
              (m.idType # "number" \/ m.request_id # call[c].reqID) => ~Emit(m)]_vars

\* call c was listening when the response that acknowledged the later call d,
\* with another request_id, was emitted, and is still pending
C3_Witness ==
  \E c, d \in CallIds :
    /\ c < d /\ call[c].reqID # call[d].reqID
    /\ InLog(d, "ack")
    /\ Pending(c) /\ call[c].cbLog = <<>> /\ listeners[c] = 1

\* C4: every call attaches exactly one listener and removes exactly one on
\* every exit path: the listeners registered are exactly those of the calls
\* that attached one and have not finished, one each, and none is left once
\* every call has finished.
C4_ListenersMatchUnfinishedCalls ==
  /\ \A c \in CallIds :
       listeners[c] = IF Attached(c) /\ call[c].promise = "pending" THEN 1 ELSE 0
  /\ (\A c \in CallIds : call[c].pc \in {"returned", "threw"}
                          \/ (call[c].pc = "async" /\ call[c].promise # "pending"))
       => \A c \in CallIds : listeners[c] = 0

C4_Witness ==
  /\ \A c \in CallIds :
       call[c].pc = "async" /\ call[c].promise # "pending" /\ listeners[c] = 0
  /\ \E c, d \in CallIds : call[c].cbLog[1] # call[d].cbLog[1]

\* C5: the listener is registered strictly before the envelope is published:
\* in no state has the envelope of a call been published while the call is
\* unsettled and its listener is not registered.
C5_ListenerBeforePublish ==
  \A c \in CallIds : Pending(c) => listeners[c] = 1

C5_Witness ==
  \E c \in CallIds :
    call[c].pc = "L437" /\ call[c].pubCb = "pending" /\ listeners[c] = 1

\* call c is settled and its listener removed, by the timeout failure when
\* neither a matching response nor a publish error occurred
SettledAndRemoved(c) ==
  /\ call[c].promise # "pending"
  /\ listeners[c] = 0
  /\ (~InLog(c, "ack") /\ ~InLog(c, "publishError"))
       => (call[c].promise = "rejectedTimeout" /\ call[c].cbLog = <<"timeout">>)

\* C6: every call that reaches publication eventually settles with its
\* listener removed: if neither a matching response nor a publish error
\* occurs, the 15 s timer fires and settles it as the timeout failure; no
\* call stays pending forever.
\* (being published and being settled both last once true, so "from some
\* point on every published call is settled" says of each call that its
\* publication leads to its settlement)
C6_PublishedCallSettles ==
  <>[](\A c \in CallIds : Published(c) => SettledAndRemoved(c))

C6_Witness ==
  \E c \in CallIds :
    /\ call[c].cbLog = <<"timeout">> /\ call[c].pubCb = "pending"
    /\ call[c].promise = "rejectedTimeout" /\ listeners[c] = 0

\* C7 as stated: at most one pending request per correlation identifier.
C7_OnePendingPerReqID ==
  \A c, d \in CallIds :
    (c # d /\ Pending(c) /\ Pending(d)) => call[c].reqID # call[d].reqID

\* C7 amended: one inbound response settles exactly the in-flight calls whose
\* reqID equals its request_id, so at most one whenever the identifiers of
\* the in-flight calls are pairwise distinct.
\* (stated as: a step in which the settled calls are others is not the
\* emission of that response)
C7_ResponseSettlesExactlyMatching ==
  [][\/ UNCHANGED vars
     \/ \A m \in Messages :
       LET settled == {c \in CallIds :
                         call[c].promise = "pending" /\ call'[c].promise # "pending"}
           matching == {c \in CallIds :
                          /\ Pending(c) /\ listeners[c] = 1
                          /\ m.topic = "/ls_resp" /\ m.parse = "ok"
                          /\ m.idType = "number" /\ m.request_id = call[c].reqID}
       IN  \/ /\ settled = matching
              /\ C7_OnePendingPerReqID => Cardinality(settled) <= 1
           \/ ~Emit(m)]_vars

\* two calls in flight with distinct identifiers, one response: only the
\* later call is settled
C7_Witness ==
  \E c, d \in CallIds :
    /\ c < d /\ call[c].reqID # call[d].reqID
    /\ call[d].promise = "resolved" /\ call[d].timer = "armed"
    /\ Pending(c) /\ call[c].timer = "armed"

\* C10: with no attachment and mentions missing, not an array or empty,
\* sendMention reports a validation error to the caller synchronously and
\* ends without registering a listener and without publishing.
C10_ValidationErrorReported ==
  \A c \in CallIds :
    call[c].exit = "validation" =>
      /\ CallerTold(c, "validationError")
      /\ listeners[c] = 0
      /\ ~Published(c)

\* C11: when the transport client is absent or not connected, or the message
\* is neither a string nor an object, sendMention reports the precondition
\* failure to the caller synchronously, and in that call no listener is
\* registered, no envelope published and no timer started.
C11_PreconditionFailureReported ==
  \A c \in CallIds :
    call[c].exit \in {"notConnected", "badType"} =>
      /\ CallerTold(c, ErrorOf(call[c].exit))
      /\ listeners[c] = 0
      /\ ~Published(c)
      /\ call[c].timer = "none"

\* a message handleRes discards before it looks at the request_id
Malformed(m) == m.topic # "/ls_resp" \/ m.parse \in {"badOuter", "badPayload"}

WellFormedMatch(m, reqID) ==
  /\ m.topic = "/ls_resp" /\ m.parse = "ok"
  /\ m.idType = "number" /\ m.request_id = reqID

\* C12: a message on another topic, or failing the outer or the nested JSON
\* parse, is discarded without effect: while only such messages were heard the
\* call is never acknowledged and, unless the timeout or a publish error
\* ended it, stays pending with its listener registered and its callback not
\* invoked; and the first well-formed response with the matching request_id
\* heard after them settles the call successfully.
C12_MalformedDiscarded ==
  /\ (heard # <<>> /\ \A i \in 1..Len(heard) : Malformed(heard[i])) =>
       /\ ~InLog(1, "ack") /\ call[1].promise # "resolved"
       /\ (~InLog(1, "timeout") /\ ~InLog(1, "publishError")) =>
            /\ call[1].promise = "pending" /\ ~call[1].done
            /\ listeners[1] = 1 /\ call[1].cbLog = <<>>
  /\ \A k \in 1..Len(heard) :
       (WellFormedMatch(heard[k], call[1].reqID)
          /\ \A i \in 1..(k - 1) : Malformed(heard[i])) =>
         /\ call[1].promise = "resolved" /\ call[1].cbLog[1] = "ack"
         /\ listeners[1] = 0

\* a malformed message was heard, then the matching response settled the call
C12_Witness ==
  /\ Len(heard) = 2 /\ Malformed(heard[1])
  /\ WellFormedMatch(heard[2], call[1].reqID)
  /\ call[1].promise = "resolved"

\* C13: the callback the caller passed to a sendMention call that reaches
\* publishWithAck is invoked exactly once in every interleaving of matching
\* response, publish-error callback and timeout: never a second time, and
\* once when the call has settled.
C13_CallbackInvokedExactlyOnce ==
  \A c \in CallIds :
    (call[c].exit = "publishWithAck" /\ call[c].userCb) =>
      /\ Len(call[c].cbLog) <= 1
      /\ call[c].promise # "pending" => Len(call[c].cbLog) = 1

\* handleRes has been applied to resIn
Extracted == resOut # NoBodies

\* the arrays of a parsed value in walk order: an array before its elements,
\* the elements left to right
RECURSIVE ArraysIn(_)
RECURSIVE ArraysInItems(_, _)
ArraysInItems(xs, k) ==
  IF k > Len(xs) THEN <<>> ELSE ArraysIn(xs[k]) \o ArraysInItems(xs, k + 1)

ArraysIn(n) == IF n.t # "arr" THEN <<>> ELSE <<n>> \o ArraysInItems(n.items, 1)

\* [5, "replaceOptimisticMessage" | "replaceOptimsiticMessage", _, id]
IsReplaceArray(n) ==
  /\ Len(n.items) >= 2
  /\ n.items[1] = JNum("5")
  /\ n.items[2] \in {JStr("replaceOptimisticMessage"), JStr("replaceOptimsiticMessage")}

\* [5, "writeCTAIdToThreadsTable", [19, id]]
IsThreadArray(n) ==
  /\ Len(n.items) >= 3
  /\ n.items[1] = JNum("5")
  /\ n.items[2] = JStr("writeCTAIdToThreadsTable")
  /\ n.items[3].t = "arr" /\ Len(n.items[3].items) >= 1
  /\ n.items[3].items[1] = JNum("19")

StepUnderTest ==
  IF resIn.payload.t = "obj" /\ resIn.payload.hasStep THEN resIn.payload.step ELSE JNull

ReplaceArrays == SelectSeq(ArraysIn(StepUnderTest), IsReplaceArray)

ThreadArrays == SelectSeq(ArraysIn(StepUnderTest), IsThreadArray)

C15_AttachmentDelegated ==
  \A c \in CallIds :
    call[c].exit \in {"sendMessage", "noSendMessage"} =>
      /\ listeners[c] = 0 /\ ~Published(c) /\ call[c].timer = "none"
      /\ call[c].msgIntact
      /\ call[c].exit = "sendMessage" =>
           /\ Len(call[c].sent) = 1
           /\ call[c].sent[1].ref = "copy"
           /\ DOMAIN call[c].sent[1].fields = {"body", "attachment"}
      /\ call[c].exit = "noSendMessage" =>
           /\ call[c].sent = <<>>
           /\ CallerTold(c, "noSendMessageError")

\* timers the pinger has started
TimersStarted ==
  (IF uptime.initial # "none" THEN 1 ELSE 0) + (IF uptime.interval # "none" THEN 1 ELSE 0)

\* C16: on linux with Uptime enabled and a custom UptimeURL configured, the
\* pinger starts monitoring some URL (the initial ping timer and the 5 minute
\* interval) whatever the hosting environment variables are; and with Uptime
\* disabled it starts no timer and issues no HTTP request.
C16_CustomURLAlwaysMonitored ==
  /\ (uptime.pc = "called" /\ uptime.platform = "linux"
        /\ uptime.Uptime /\ uptime.UptimeURL) =>
       /\ uptime.url # "null"
       /\ uptime.initial # "none" /\ uptime.interval = "running"
  /\ ~uptime.Uptime => (TimersStarted = 0 /\ uptime.requests = <<>>)

\* buildMentionData has been applied to mentionIn and returned data
Built == ~mentionOut.isNull

IsHelloAlice == mentionIn.body = HelloAliceBody /\ mentionIn.mentions = HelloAliceMentions

\* C8 as stated: for "hello @Alice bye" and {tag: "@Alice", id: "1"} the
\* mention resolves to offset 6 and length 5.
C8_HelloAliceOffsetSix ==
  (IsHelloAlice /\ Built) =>
    mentionOut.mention_offsets = <<6>> /\ mentionOut.mention_lengths = <<5>>

\* C8 amended: for "hello @Alice bye" and {tag: "@Alice", id: "1"} the mention
\* resolves to offset 7 (the "A" after the "@") and length 5.
C8_HelloAliceOffsetSeven ==
  (IsHelloAlice /\ Built) =>
    mentionOut.mention_offsets = <<7>> /\ mentionOut.mention_lengths = <<5>>

C8_Witness == IsHelloAlice /\ Built /\ mentionOut.mention_ids = <<"1">>

NameOf(m) == Trim(StripAt(Trim(m.tag)))

NoFromIndex == \A i \in 1..Len(mentionIn.mentions) : ~mentionIn.mentions[i].hasFromIndex

\* every mention has a name and the name occurs in the body
AllNamesOccur ==
  \A i \in 1..Len(mentionIn.mentions) :
    /\ Len(NameOf(mentionIn.mentions[i])) > 0
    /\ LastIndexOf(mentionIn.body, NameOf(mentionIn.mentions[i])) # -1

NonDecreasing(offsets) == \A i \in 2..Len(offsets) : offsets[i - 1] <= offsets[i]

\* C9 as stated: without fromIndex and with every name occurring in the body,
\* the offsets are non-decreasing in the input order of the mentions, whatever
\* order the names have in the body.
C9_OffsetsNonDecreasing ==
  (Built /\ NoFromIndex /\ AllNamesOccur) => NonDecreasing(mentionOut.mention_offsets)

\* every name was found by the forward search from the cursor (strategies 1-4)
FoundForward ==
  \A i \in 1..Len(mentionOut.vias) : mentionOut.vias[i] # "lastIndexOf"

\* C9 amended: without fromIndex and with every name occurring in the body,
\* the offsets are non-decreasing in input order provided every name is found
\* at or after the cursor, the end of the previously resolved mention.
C9_OffsetsNonDecreasingInTextOrder ==
  (Built /\ NoFromIndex /\ AllNamesOccur /\ FoundForward)
    => NonDecreasing(mentionOut.mention_offsets)

C9_Witness ==
  /\ Built /\ NoFromIndex /\ AllNamesOccur /\ FoundForward
  /\ Len(mentionOut.mention_offsets) = 2
  /\ mentionOut.mention_offsets[1] < mentionOut.mention_offsets[2]

====
